---- MODULE Spec2Model ----
(***************************************************************************)
(* Model of the doctest execution engine (run.ts, held in src/src/cli.ts   *)
(* lines 119-503): runBlocks, runBlock, runHook and cleanupTemp.           *)
(*                                                                         *)
(* One run of runBlocks is one behaviour.  The inputs (the block list and  *)
(* the resolved configuration) are chosen in Init.  Everything the         *)
(* operating system decides (whether a spawn succeeds, when a process      *)
(* exits and with which code, when an output pipe reaches end of file,     *)
(* when the timer expires, whether a file-system call fails) is a          *)
(* nondeterministic choice of the action that observes it.                 *)
(* durationMs is not modelled: no claim reads it.                          *)
(*                                                                         *)
(* The block extractor (parse.ts, held in src/unnamed/part_000) and the    *)
(* exit code of main (cli.ts) are modelled further down; the extractor has *)
(* its own specifications, SpecParse and SpecMeta.                         *)
(***************************************************************************)
EXTENDS Integers, Sequences, FiniteSets, TLC

\* Longest block list explored.
MaxBlocks == 2

\* exitCode: number | null -- the null of BlockResult.exitCode.
NoExitCode == -1

\* reason?: string -- the absent reason of a result returned by runBlock
\* after a spawn that succeeded.
NoReason == "undefined"

\* Exit codes a process may report: zero and one non-zero representative.
ExitCodes == {0, 1}

\* Text captured from the pipes of a spawned process, and the description
\* of a spawn error (formatSpawnError).
OutText == "stdout text"
ErrText == "stderr text"
SpawnErrorText == "spawn error message"

-----------------------------------------------------------------------------
(* Environment maps.  A map is a function from key names to values; a      *)
(* value is a pair <<origin, n>> so that all values are comparable.        *)

EmptyEnv == [k \in {} |-> <<"", 0>>]

\* process.env: the inherited environment.  It carries a key the global
\* configuration also sets (K) and stale engine variables.
ProcessEnv ==
  [k \in {"HOME", "K", "DOCTEST_TMP", "DOCTEST_ROOT"} |-> <<"inherited", 0>>]

\* config.env: the global configured environment.  It collides with the
\* inherited environment on K and on DOCTEST_ROOT.
GlobalEnv == [k \in {"K", "G", "DOCTEST_ROOT"} |-> <<"global", 0>>]

\* block.env candidates (from env=KEY=VALUE tokens of the fence meta).
DeclaredEnv ==
  [k \in {"K", "B", "DOCTEST_ROOT", "DOCTEST_FILE", "DOCTEST_TMP",
          "DOCTEST_WORKDIR"} |-> <<"block", 0>>]

\* { ...a, ...b }: object spread, the later source wins on a shared key.
Spread(a, b) ==
  [k \in (DOMAIN a) \cup (DOMAIN b) |-> IF k \in DOMAIN b THEN b[k] ELSE a[k]]

\* options.rootDir, and path.resolve(rootDir, attributes.workdir).
RootDir == <<"rootDir", 0>>
Workdir(block) ==
  IF block.workdir # "" THEN <<"rootDir/workdir", 0>> ELSE RootDir

\* path.join(options.tempDir, `block-${blockId}`): one fresh directory per
\* call of runBlock, identified here by the block's position.
BlockTempDir(i) == <<"tempDir/block", i>>

\* The four variables runBlock writes after the spreads.
EngineEnv(block, i) ==
  [k \in {"DOCTEST_ROOT", "DOCTEST_FILE", "DOCTEST_TMP", "DOCTEST_WORKDIR"} |->
     CASE k = "DOCTEST_ROOT" -> RootDir
       [] k = "DOCTEST_FILE" -> <<block.filePath, 0>>
       [] k = "DOCTEST_TMP" -> BlockTempDir(i)
       [] OTHER -> Workdir(block)]

\* const env = { ...process.env, ...config.env, ...block.env, DOCTEST_* }
BlockProcessEnvBlockLast(cfg, block, i) ==
  Spread(Spread(Spread(ProcessEnv, cfg.env), EngineEnv(block, i)), block.env)
BlockProcessEnv(cfg, block, i) ==
  Spread(Spread(Spread(ProcessEnv, cfg.env), block.env), EngineEnv(block, i))

-----------------------------------------------------------------------------
(* Inputs.                                                                 *)

SkipFlag == "no-doctest"

\* Languages with a runner in config.runners (defaultConfig has sh among
\* others).
RegisteredLangs == {"sh"}

\* Names every plain JavaScript object inherits from Object.prototype.
\* config.runners is a plain object, so runners[lang] is a function, not
\* undefined, for these names.
\* __proto__ gives Object.prototype itself, an object and so truthy too.
InheritedNames ==
  {"constructor", "toString", "toLocaleString", "valueOf", "hasOwnProperty",
   "isPrototypeOf", "propertyIsEnumerable", "__proto__", "__defineGetter__",
   "__defineSetter__", "__lookupGetter__", "__lookupSetter__"}

\* Language tags explored: empty, registered, unregistered, and an
\* unregistered one that names an inherited property (one of
\* InheritedNames stands for all of them: the lookup treats them alike).
Langs == {"", "sh", "zz", "constructor"}

\* options.config.runners[block.lang]
RunnerLookup(lang) ==
  IF lang \in RegisteredLangs THEN "command"
  ELSE IF lang \in InheritedNames THEN "inherited"
  ELSE "undefined"

CodeBlock(flags, lang, env, workdir) ==
  [filePath |-> "doc.md", lang |-> lang, flags |-> flags, env |-> env,
   workdir |-> workdir]

\* The blocks explored.  env and workdir are read by runBlock only, so they
\* vary only on a block that reaches runBlock.
BlockKinds ==
  {CodeBlock({SkipFlag}, l, EmptyEnv, "") : l \in {"", "sh", "zz"}}
  \cup {CodeBlock({}, l, EmptyEnv, "") : l \in Langs}
  \cup {CodeBlock({}, "sh", DeclaredEnv, "sub")}

BlockLists == UNION {[1..n -> BlockKinds] : n \in 0..MaxBlocks}

Configs ==
  [unknownLanguage : {"skip", "fail"},
   hooks : [setup : BOOLEAN, teardown : BOOLEAN],
   env : {GlobalEnv}]

-----------------------------------------------------------------------------
(* State.                                                                  *)

VARIABLES
  blocks,       \* runBlocks argument: the CodeBlock list, in scan order
  config,       \* options.config
  pc,           \* where runBlocks is: "setup", "hook", "loop", "run",
                \* "done" (promise resolved), "rejected" (promise rejected)
  index,        \* position of the for-of loop: the next block to visit
  results,      \* const results: BlockResult[]
  hookErrors,   \* const hookErrors: BlockResult[]
  returned,     \* the array runBlocks resolves to (<<>> before it returns)
  hook,         \* the hook process runHook awaits, and its three promises
  hookSpawns,   \* Bun.spawn calls made by runHook, per hook type
  spawn,        \* per block: outcome of Bun.spawn in runBlock
  proc,         \* per block: state of the block's process
  procEnv,      \* per block: env handed to Bun.spawn
  timer,        \* per block: state of the setTimeout timer
  killed,       \* per block: proc.kill() was called
  run,          \* locals of the runBlock call in progress
  firstEvent,   \* per block: which of "exit" and "timer" happened first
  unlinkCalls,  \* paths fs.unlink was called on
  rmCalls,      \* paths fs.rm was called on
  swallowed,    \* paths whose removal failed, with the error swallowed,
                \* in the step just taken ({} after any other step)
  content,      \* parseFile argument: the text of the document
  lines,        \* parseFile: const lines = content.split(/\r?\n/)
  lineIndex,    \* parseFile: let index (0-based, as in the source)
  parsed,       \* parseFile: const blocks: CodeBlock[]
  open,         \* parseFile: fence, info, startLine and codeLines of the
                \* latest fence iteration
  ppc,          \* where parseFile is: "scan" (outer loop), "inside" (inner
                \* loop), "returned", or "idle" (not called)
  metaIn,       \* parseMeta argument
  metaOut       \* what parseMeta returned

\* The variables of the extractor (parse.ts); the engine leaves them alone.
extractVars ==
  <<content, lines, lineIndex, parsed, open, ppc, metaIn, metaOut>>

\* The variables of the engine (run.ts); the extractor leaves them alone.
engineVars ==
  <<blocks, config, pc, index, results, hookErrors, returned, hook,
    hookSpawns, spawn, proc, procEnv, timer, killed, run, firstEvent,
    unlinkCalls, rmCalls, swallowed>>

vars == <<engineVars, extractVars>>

ScriptFile(i) == <<"script", i>>
BlockDir(i) == <<"blockdir", i>>

\* Locals of runBlock before the process reports anything.
IdleRun ==
  [timedOut |-> FALSE, exitCode |-> NoExitCode, stdout |-> "open",
   stderr |-> "open"]

IdleHook ==
  [type |-> "none", proc |-> "none", exitCode |-> NoExitCode,
   stdout |-> "open", stderr |-> "open"]

\* Locals of parseFile before any fence was seen.
IdleOpen == [fence |-> <<>>, info |-> <<>>, startLine |-> 0, codeLines |-> <<>>]

\* parseMeta not called yet.
IdleMetaOut == [done |-> FALSE, flags |-> {}, attributes |-> <<>>, env |-> <<>>]

\* parseFile is not called.
ParseIdle ==
  /\ content = <<>>
  /\ lines = <<>>
  /\ lineIndex = 0
  /\ parsed = <<>>
  /\ open = IdleOpen
  /\ ppc = "idle"

\* parseMeta is not called on its own.
MetaIdle ==
  /\ metaIn = <<>>
  /\ metaOut = IdleMetaOut

Init ==
  /\ ParseIdle
  /\ MetaIdle
  /\ blocks \in BlockLists
  /\ config \in Configs
  /\ pc = "setup"
  /\ index = 1
  /\ results = <<>>
  /\ hookErrors = <<>>
  /\ returned = <<>>
  /\ hook = IdleHook
  /\ hookSpawns = [setup |-> 0, teardown |-> 0]
  /\ spawn = [i \in DOMAIN blocks |-> "none"]
  /\ proc = [i \in DOMAIN blocks |-> "none"]
  /\ procEnv = [i \in DOMAIN blocks |-> EmptyEnv]
  /\ timer = [i \in DOMAIN blocks |-> "none"]
  /\ killed = [i \in DOMAIN blocks |-> FALSE]
  /\ run = IdleRun
  /\ firstEvent = [i \in DOMAIN blocks |-> "none"]
  /\ unlinkCalls = {}
  /\ rmCalls = {}
  /\ swallowed = {}

\* runBlocks is not called: an empty block list and no hooks, before the
\* first statement.
EngineIdle ==
  /\ blocks = <<>>
  /\ config = [unknownLanguage |-> "skip",
               hooks |-> [setup |-> FALSE, teardown |-> FALSE],
               env |-> GlobalEnv]
  /\ pc = "setup"
  /\ index = 1
  /\ results = <<>>
  /\ hookErrors = <<>>
  /\ returned = <<>>
  /\ hook = IdleHook
  /\ hookSpawns = [setup |-> 0, teardown |-> 0]
  /\ spawn = <<>>
  /\ proc = <<>>
  /\ procEnv = <<>>
  /\ timer = <<>>
  /\ killed = <<>>
  /\ run = IdleRun
  /\ firstEvent = <<>>
  /\ unlinkCalls = {}
  /\ rmCalls = {}
  /\ swallowed = {}

-----------------------------------------------------------------------------
(* Results.                                                                *)

\* A BlockResult whose block field is blocks[i].
BlockResult(i, status, stdout, stderr, exitCode, reason) ==
  [filePath |-> blocks[i].filePath, block |-> i, status |-> status,
   stdout |-> stdout, stderr |-> stderr, exitCode |-> exitCode,
   reason |-> reason]

\* `${type}-hook`
HookFilePath(type) == IF type = "setup" THEN "setup-hook" ELSE "teardown-hook"

\* `${type} hook spawn failed`, `${type} hook failed`, `${type} hook`
HookReason(type, what) ==
  CASE type = "setup" /\ what = "spawn failed" -> "setup hook spawn failed"
    [] type = "setup" /\ what = "failed" -> "setup hook failed"
    [] type = "setup" /\ what = "passed" -> "setup hook"
    [] type = "teardown" /\ what = "spawn failed" -> "teardown hook spawn failed"
    [] type = "teardown" /\ what = "failed" -> "teardown hook failed"
    [] OTHER -> "teardown hook"

\* The synthetic result of runHook; its block is a placeholder (block 0).
HookResult(type, status, stdout, stderr, exitCode, what) ==
  [filePath |-> HookFilePath(type), block |-> 0, status |-> status,
   stdout |-> stdout, stderr |-> stderr, exitCode |-> exitCode,
   reason |-> HookReason(type, what)]

\* if (hookErrors.length > 0) return [...hookErrors, ...results];
\* return results
ReturnValue(he, res) == IF Len(he) > 0 THEN he \o res ELSE res

-----------------------------------------------------------------------------
(* runBlocks: the block loop.                                              *)

\* The if-chain of the loop body: the first test that matches decides.
ClassifyLangFirst(block) ==
  IF block.lang = "" THEN "missing language"
  ELSE IF RunnerLookup(block.lang) = "undefined" THEN "unknown language"
  ELSE IF SkipFlag \in block.flags THEN "no-doctest"
  ELSE "run"
ClassifyRunnerFirst(block) ==
  IF SkipFlag \in block.flags THEN "no-doctest"
  ELSE IF RunnerLookup(block.lang) = "undefined" THEN "unknown language"
  ELSE IF block.lang = "" THEN "missing language"
  ELSE "run"
Classify(block) ==
  IF SkipFlag \in block.flags THEN "no-doctest"
  ELSE IF block.lang = "" THEN "missing language"
  ELSE IF RunnerLookup(block.lang) = "undefined" THEN "unknown language"
  ELSE "run"

\* status: options.config.unknownLanguage === "fail" ? "failed" : "skipped"
UnknownStatus(cfg) ==
  IF cfg.unknownLanguage = "fail" THEN "failed" ELSE "skipped"

InLoop == pc = "loop" /\ index \in DOMAIN blocks

LoopUnchanged ==
  /\ UNCHANGED extractVars
  /\ UNCHANGED <<blocks, config, hookErrors, returned, hook, hookSpawns, spawn,
              proc, procEnv, timer, killed, run, firstEvent,
              unlinkCalls, rmCalls>>
  /\ swallowed' = {}

\* if (block.flags.has("no-doctest")) { results.push(...); continue }
SkipNoDoctest ==
  /\ InLoop
  /\ Classify(blocks[index]) = "no-doctest"
  /\ results' = Append(results,
       BlockResult(index, "skipped", "", "", NoExitCode, "no-doctest"))
  /\ index' = index + 1
  /\ pc' = "loop"
  /\ LoopUnchanged

\* if (!block.lang) { results.push(...); continue }
SkipMissingLanguage ==
  /\ InLoop
  /\ Classify(blocks[index]) = "missing language"
  /\ results' = Append(results,
       BlockResult(index, "skipped", "", "", NoExitCode, "missing language"))
  /\ index' = index + 1
  /\ pc' = "loop"
  /\ LoopUnchanged

\* if (!runner) { results.push(...); continue }
UnknownLanguage ==
  /\ InLoop
  /\ Classify(blocks[index]) = "unknown language"
  /\ results' = Append(results,
       BlockResult(index, UnknownStatus(config), "", "", NoExitCode,
                   "unknown language"))
  /\ index' = index + 1
  /\ pc' = "loop"
  /\ LoopUnchanged

-----------------------------------------------------------------------------
(* runBlock.                                                               *)

\* cleanupTemp: unlink the script file, then remove the block directory;
\* each call's error is swallowed, so both calls are always made.  The
\* value is the next state of <<unlinkCalls, rmCalls, swallowed>>.
CleanupTempThrowing(i, unlinkOk, rmOk) ==
  [unlinkCalls |-> unlinkCalls \cup {ScriptFile(i)},
   rmCalls |-> rmCalls \cup (IF unlinkOk THEN {BlockDir(i)} ELSE {}),
   swallowed |-> IF unlinkOk /\ ~rmOk THEN {BlockDir(i)} ELSE {}]
CleanupTemp(i, unlinkOk, rmOk) ==
  [unlinkCalls |-> unlinkCalls \cup {ScriptFile(i)},
   rmCalls |-> rmCalls \cup {BlockDir(i)},
   swallowed |-> (IF unlinkOk THEN {} ELSE {ScriptFile(i)})
                   \cup (IF rmOk THEN {} ELSE {BlockDir(i)})]

\* await fs.mkdir(...) or await fs.writeFile(...) rejects: nothing in
\* runBlock or runBlocks catches it, so the promise of runBlocks rejects.
\* (When writeFile is the call that fails the block directory stays behind.)
RunBlockPrepareFailed ==
  /\ InLoop
  /\ Classify(blocks[index]) = "run"
  /\ pc' = "rejected"
  /\ swallowed' = {}
  /\ UNCHANGED extractVars
  /\ UNCHANGED <<blocks, config, index, results, hookErrors, returned, hook,
                 hookSpawns, spawn, proc, procEnv, timer, killed, run,
                 firstEvent, unlinkCalls, rmCalls>>

\* The result runBlock returns from the catch around Bun.spawn.
SpawnFailedResultNoDescription(i) ==
  BlockResult(i, "failed", "", "", NoExitCode, "spawn failed")
SpawnFailedResult(i) ==
  BlockResult(i, "failed", "", SpawnErrorText, NoExitCode, "spawn failed")

\* Bun.spawn throws: cleanupTemp, then the "spawn failed" result.  The
\* statements that arm the timer are not reached.
RunBlockSpawnFailed ==
  /\ InLoop
  /\ Classify(blocks[index]) = "run"
  /\ spawn' = [spawn EXCEPT ![index] = "failed"]
  /\ procEnv' = [procEnv EXCEPT
                   ![index] = BlockProcessEnv(config, blocks[index], index)]
  /\ \E unlinkOk \in BOOLEAN, rmOk \in BOOLEAN :
       LET fs == CleanupTemp(index, unlinkOk, rmOk)
       IN /\ unlinkCalls' = fs.unlinkCalls
          /\ rmCalls' = fs.rmCalls
          /\ swallowed' = fs.swallowed
  /\ results' = Append(results, SpawnFailedResult(index))
  /\ index' = index + 1
  /\ pc' = "loop"
  /\ UNCHANGED extractVars
  /\ UNCHANGED <<blocks, config, hookErrors, returned, hook, hookSpawns,
                 proc, timer, killed, run, firstEvent>>

\* Bun.spawn succeeds: the process runs, timedOut = false, the timer is
\* armed, and runBlock awaits the three promises.
RunBlockSpawned ==
  /\ InLoop
  /\ Classify(blocks[index]) = "run"
  /\ spawn' = [spawn EXCEPT ![index] = "ok"]
  /\ procEnv' = [procEnv EXCEPT
                   ![index] = BlockProcessEnv(config, blocks[index], index)]
  /\ proc' = [proc EXCEPT ![index] = "running"]
  /\ timer' = [timer EXCEPT ![index] = "armed"]
  /\ run' = IdleRun
  /\ swallowed' = {}
  /\ pc' = "run"
  /\ UNCHANGED extractVars
  /\ UNCHANGED <<blocks, config, index, results, hookErrors, returned, hook,
                 hookSpawns, killed, firstEvent, unlinkCalls,
                 rmCalls>>

\* Promise.all([stdout text, stderr text, proc.exited]) has resolved.
Joined(r, p) == p = "exited" /\ r.stdout = "closed" /\ r.stderr = "closed"

\* proc.exited resolves with the exit code.
ProcExited ==
  /\ pc = "run"
  /\ proc[index] = "running"
  /\ \E code \in ExitCodes : run' = [run EXCEPT !.exitCode = code]
  /\ proc' = [proc EXCEPT ![index] = "exited"]
  /\ firstEvent' = [firstEvent EXCEPT
                      ![index] = IF @ = "none" THEN "exit" ELSE @]
  /\ UNCHANGED extractVars
  /\ UNCHANGED <<blocks, config, pc, index, results, hookErrors, returned,
                 hook, hookSpawns, spawn, procEnv, timer, killed,
                 unlinkCalls, rmCalls>>
  /\ swallowed' = {}

\* new Response(proc.stdout).text() resolves: the pipe reached end of file.
\* Another holder of the pipe can keep it open after the process exited.
StdoutClosed ==
  /\ pc = "run"
  /\ run.stdout = "open"
  /\ run' = [run EXCEPT !.stdout = "closed"]
  /\ UNCHANGED extractVars
  /\ UNCHANGED <<blocks, config, pc, index, results, hookErrors, returned,
                 hook, hookSpawns, spawn, proc, procEnv, timer, killed,
                 firstEvent, unlinkCalls, rmCalls>>
  /\ swallowed' = {}

\* new Response(proc.stderr).text() resolves.
StderrClosed ==
  /\ pc = "run"
  /\ run.stderr = "open"
  /\ run' = [run EXCEPT !.stderr = "closed"]
  /\ UNCHANGED extractVars
  /\ UNCHANGED <<blocks, config, pc, index, results, hookErrors, returned,
                 hook, hookSpawns, spawn, proc, procEnv, timer, killed,
                 firstEvent, unlinkCalls, rmCalls>>
  /\ swallowed' = {}

\* The setTimeout callback: timedOut = true; proc.kill().  It can run as
\* long as clearTimeout has not: that is until the continuation of the
\* await, which runs in the same turn in which the last promise resolves.
\* The callback belongs to the runBlock call of block i: it kills that
\* call's proc and sets that call's timedOut, which only a call still in
\* progress reads.
TimeoutFired(i) ==
  /\ timer[i] = "armed"
  /\ ~(pc = "run" /\ index = i /\ Joined(run, proc[i]))
  /\ run' = IF pc = "run" /\ index = i
            THEN [run EXCEPT !.timedOut = TRUE] ELSE run
  /\ timer' = [timer EXCEPT ![i] = "fired"]
  /\ killed' = [killed EXCEPT ![i] = TRUE]
  /\ firstEvent' = [firstEvent EXCEPT
                      ![i] = IF @ = "none" THEN "timer" ELSE @]
  /\ UNCHANGED extractVars
  /\ UNCHANGED <<blocks, config, pc, index, results, hookErrors, returned,
                 hook, hookSpawns, spawn, proc, procEnv, unlinkCalls, rmCalls>>
  /\ swallowed' = {}

\* The three returns that end runBlock after the await.
OutcomeDropsExitCode(i, r) ==
  IF r.timedOut
  THEN BlockResult(i, "timeout", OutText, ErrText, NoExitCode, NoReason)
  ELSE IF r.exitCode # 0
  THEN BlockResult(i, "failed", OutText, ErrText, NoExitCode, NoReason)
  ELSE BlockResult(i, "passed", OutText, ErrText, r.exitCode, NoReason)
OutcomeIgnoringTimeout(i, r) ==
  IF r.exitCode # 0
  THEN BlockResult(i, "failed", OutText, ErrText, r.exitCode, NoReason)
  ELSE BlockResult(i, "passed", OutText, ErrText, r.exitCode, NoReason)
Outcome(i, r) ==
  IF r.timedOut
  THEN BlockResult(i, "timeout", OutText, ErrText, NoExitCode, NoReason)
  ELSE IF r.exitCode # 0
  THEN BlockResult(i, "failed", OutText, ErrText, r.exitCode, NoReason)
  ELSE BlockResult(i, "passed", OutText, ErrText, r.exitCode, NoReason)

\* What runBlock waits for before it continues after Bun.spawn.
AwaitedNoExit(r, p) == r.timedOut \/ Joined(r, p)
Awaited(r, p) == Joined(r, p)

\* clearTimeout(timeout): an armed timer is cancelled; one that has fired
\* is left as it is.
ClearTimeoutMissing(t) == t
ClearTimeout(t) == IF t = "armed" THEN "cleared" ELSE t

\* The await is over: clearTimeout, cleanupTemp, classify, results.push.
RunBlockFinished ==
  /\ pc = "run"
  /\ Awaited(run, proc[index])
  /\ timer' = [timer EXCEPT ![index] = ClearTimeout(@)]
  /\ \E unlinkOk \in BOOLEAN, rmOk \in BOOLEAN :
       LET fs == CleanupTemp(index, unlinkOk, rmOk)
       IN /\ unlinkCalls' = fs.unlinkCalls
          /\ rmCalls' = fs.rmCalls
          /\ swallowed' = fs.swallowed
  /\ results' = Append(results, Outcome(index, run))
  /\ run' = IdleRun
  /\ index' = index + 1
  /\ pc' = "loop"
  /\ UNCHANGED extractVars
  /\ UNCHANGED <<blocks, config, hookErrors, returned, hook, hookSpawns,
                 spawn, proc, procEnv, killed, firstEvent>>

-----------------------------------------------------------------------------
(* runHook, and the return of runBlocks.                                   *)

HookTypes == {"setup", "teardown"}

\* Where runBlocks calls runHook(type): setup first, teardown after the
\* for-of loop has visited every block.
HookDueOnFailure(type) ==
  IF type = "setup" THEN pc = "setup"
  ELSE /\ pc = "loop"
       /\ \/ index > Len(blocks)
          \/ \E k \in DOMAIN results : results[k].status \in {"failed", "timeout"}
HookDue(type) ==
  IF type = "setup" THEN pc = "setup"
  ELSE pc = "loop" /\ index > Len(blocks)

\* const command = options.config.hooks[type]; if (!command) return null
HookConfiguredUnlessFailure(type) ==
  /\ config.hooks[type]
  /\ type = "teardown" =>
       /\ \A k \in DOMAIN hookErrors : hookErrors[k].status # "failed"
       /\ \A k \in DOMAIN results : results[k].status = "passed"
HookConfigured(type) == config.hooks[type]

\* runBlocks after runHook(type) returned, with he the hookErrors array:
\* on to the loop after setup, and the return after teardown.
AfterHook(type, he) ==
  /\ hookErrors' = he
  /\ IF type = "setup"
     THEN pc' = "loop" /\ returned' = returned
     ELSE pc' = "done" /\ returned' = ReturnValue(he, results)

HookUnchanged ==
  /\ UNCHANGED extractVars
  /\ UNCHANGED <<blocks, config, index, results, spawn, proc, procEnv, timer,
              killed, run, firstEvent, unlinkCalls,
              rmCalls>>
  /\ swallowed' = {}

\* runHook returns null: nothing is spawned, nothing is pushed.
HookNotConfigured(type) ==
  /\ HookDue(type)
  /\ ~HookConfigured(type)
  /\ AfterHook(type, hookErrors)
  /\ UNCHANGED <<hook, hookSpawns>>
  /\ HookUnchanged

\* Bun.spawn throws in runHook.
HookSpawnFailed(type) ==
  /\ HookDue(type)
  /\ HookConfigured(type)
  /\ hookSpawns' = [hookSpawns EXCEPT ![type] = @ + 1]
  /\ AfterHook(type, Append(hookErrors,
       HookResult(type, "failed", "", SpawnErrorText, NoExitCode,
                  "spawn failed")))
  /\ UNCHANGED hook
  /\ HookUnchanged

\* Bun.spawn succeeds in runHook: await the three promises; no timer.
HookSpawned(type) ==
  /\ HookDue(type)
  /\ HookConfigured(type)
  /\ hookSpawns' = [hookSpawns EXCEPT ![type] = @ + 1]
  /\ hook' = [IdleHook EXCEPT !.type = type, !.proc = "running"]
  /\ pc' = "hook"
  /\ UNCHANGED <<hookErrors, returned>>
  /\ HookUnchanged

HookExited ==
  /\ pc = "hook"
  /\ hook.proc = "running"
  /\ \E code \in ExitCodes :
       hook' = [hook EXCEPT !.proc = "exited", !.exitCode = code]
  /\ UNCHANGED <<pc, hookErrors, returned, hookSpawns>>
  /\ HookUnchanged

HookStdoutClosed ==
  /\ pc = "hook"
  /\ hook.stdout = "open"
  /\ hook' = [hook EXCEPT !.stdout = "closed"]
  /\ UNCHANGED <<pc, hookErrors, returned, hookSpawns>>
  /\ HookUnchanged

HookStderrClosed ==
  /\ pc = "hook"
  /\ hook.stderr = "open"
  /\ hook' = [hook EXCEPT !.stderr = "closed"]
  /\ UNCHANGED <<pc, hookErrors, returned, hookSpawns>>
  /\ HookUnchanged

\* The two returns that end runHook after the await.
HookOutcomeNeverFails(h) ==
  HookResult(h.type, "passed", OutText, ErrText, h.exitCode, "passed")
HookOutcome(h) ==
  IF h.exitCode # 0
  THEN HookResult(h.type, "failed", OutText, ErrText, h.exitCode, "failed")
  ELSE HookResult(h.type, "passed", OutText, ErrText, h.exitCode, "passed")

\* The await of runHook is over; runBlocks pushes whatever runHook returned.
HookFinished ==
  /\ pc = "hook"
  /\ Joined(hook, hook.proc)
  /\ AfterHook(hook.type, Append(hookErrors, HookOutcome(hook)))
  /\ hook' = IdleHook
  /\ UNCHANGED hookSpawns
  /\ HookUnchanged

-----------------------------------------------------------------------------
(* The command line program after runBlocks resolved (cli.ts).               *)

\* results.some((result) => result.status === 'failed' ||
\*                          result.status === 'timeout')
HasFailuresFailedOnly(res) ==
  \E k \in DOMAIN res : res[k].status = "failed"
HasFailures(res) ==
  \E k \in DOMAIN res : res[k].status = "failed" \/ res[k].status = "timeout"

\* process.exit(hasFailures ? 1 : 0)
ProcessExitCode(res) == IF HasFailures(res) THEN 1 ELSE 0

-----------------------------------------------------------------------------

Next ==
  \/ \E type \in HookTypes : HookNotConfigured(type)
  \/ \E type \in HookTypes : HookSpawnFailed(type)
  \/ \E type \in HookTypes : HookSpawned(type)
  \/ HookExited
  \/ HookStdoutClosed
  \/ HookStderrClosed
  \/ HookFinished
  \/ SkipNoDoctest
  \/ SkipMissingLanguage
  \/ UnknownLanguage
  \/ RunBlockPrepareFailed
  \/ RunBlockSpawnFailed
  \/ RunBlockSpawned
  \/ ProcExited
  \/ StdoutClosed
  \/ StderrClosed
  \/ \E i \in DOMAIN blocks : TimeoutFired(i)
  \/ RunBlockFinished

Spec == Init /\ [][Next]_vars

\* The steps runBlocks, runBlock and runHook take by themselves: the
\* continuation of an await runs once what it awaits has settled.
EngineStep ==
  \/ \E type \in HookTypes : HookNotConfigured(type)
  \/ \E type \in HookTypes : HookSpawnFailed(type)
  \/ \E type \in HookTypes : HookSpawned(type)
  \/ HookFinished
  \/ SkipNoDoctest
  \/ SkipMissingLanguage
  \/ UnknownLanguage
  \/ RunBlockPrepareFailed
  \/ RunBlockSpawnFailed
  \/ RunBlockSpawned
  \/ RunBlockFinished

\* What a process on which proc.kill() was called does: it exits and its
\* two pipes reach end of file.
KilledProcExited == pc = "run" /\ killed[index] /\ ProcExited
KilledStdoutClosed == pc = "run" /\ killed[index] /\ StdoutClosed
KilledStderrClosed == pc = "run" /\ killed[index] /\ StderrClosed

\* The event loop runs continuations, an armed timer fires, and a killed
\* process exits and closes both pipes.  Nothing makes a process that was
\* not killed exit, and nothing makes a hook's process exit.
Fairness ==
  /\ WF_vars(EngineStep)
  /\ \A i \in 1..MaxBlocks : WF_vars(i \in DOMAIN blocks /\ TimeoutFired(i))
  /\ WF_vars(KilledProcExited)
  /\ WF_vars(KilledStdoutClosed)
  /\ WF_vars(KilledStderrClosed)

SpecFair == Spec /\ Fairness

------------------------------------------------------------------------------
(* The block extractor (parse.ts, held in src/unnamed/part_000 lines       *)
(* 68-175): parseFile, parseFenceInfo and parseMeta.                       *)
(*                                                                         *)
(* A string of the extractor is a sequence of characters, each character   *)
(* a one-character string; the character U+0060 is written Backtick and   *)
(* a character beyond ASCII by its code point, as in "U+2028".             *)

\* Longest document explored, in lines.
MaxLines == 4

\* Longest meta string explored, in tokens.
MaxTokens == 2

Backtick == "backtick"
Tilde == "~"
Space == " "
Tab == "\t"
Newline == "\n"
CarriageReturn == "\r"
FormFeed == "\f"
VerticalTab == "U+000B"
LineSeparator == "U+2028"
ParagraphSeparator == "U+2029"
Equals == "="

\* The space characters beyond ASCII that \s and trim() take: no-break
\* space, ogham space mark, en quad to hair space, narrow no-break space,
\* medium mathematical space, ideographic space, byte order mark.
UnicodeSpaces ==
  {"U+00A0", "U+1680", "U+2000", "U+2001", "U+2002", "U+2003", "U+2004",
   "U+2005", "U+2006", "U+2007", "U+2008", "U+2009", "U+200A", "U+202F",
   "U+205F", "U+3000", "U+FEFF"}

\* ch repeated n times.
Rep(ch, n) == [k \in 1..n |-> ch]

\* \s of the regular expressions, which is also what trim() strips.
Whitespace ==
  {Space, Tab, Newline, CarriageReturn, FormFeed, VerticalTab, LineSeparator,
   ParagraphSeparator} \cup UnicodeSpaces

\* What . of a regular expression does not match.
LineTerminators ==
  {Newline, CarriageReturn, LineSeparator, ParagraphSeparator}

\* parts.join(sep)
RECURSIVE JoinWith(_, _)
JoinWith(parts, sep) ==
  IF parts = <<>> THEN <<>>
  ELSE IF Len(parts) = 1 THEN parts[1]
  ELSE parts[1] \o sep \o JoinWith(Tail(parts), sep)

\* s.split(ch) for a one-character separator: empty pieces are kept.
RECURSIVE SplitOn(_, _)
SplitOn(s, ch) ==
  IF \A k \in DOMAIN s : s[k] # ch THEN <<s>>
  ELSE LET at == CHOOSE k \in DOMAIN s :
                   s[k] = ch /\ \A j \in 1..(k - 1) : s[j] # ch
       IN <<SubSeq(s, 1, at - 1)>> \o SplitOn(SubSeq(s, at + 1, Len(s)), ch)

\* content.split(/\r?\n/): a \r right before a \n goes with it.
SplitLines(text) ==
  LET segs == SplitOn(text, Newline)
  IN [k \in DOMAIN segs |->
        IF k < Len(segs) /\ segs[k] # <<>>
             /\ segs[k][Len(segs[k])] = CarriageReturn
        THEN SubSeq(segs[k], 1, Len(segs[k]) - 1)
        ELSE segs[k]]

\* s.split(/\s+/).filter(Boolean): the maximal runs of non-whitespace.
RECURSIVE SplitWs(_)
SplitWs(s) ==
  IF s = <<>> THEN <<>>
  ELSE IF Head(s) \in Whitespace THEN SplitWs(Tail(s))
  ELSE LET n == CHOOSE m \in 1..Len(s) :
                  /\ \A k \in 1..m : s[k] \notin Whitespace
                  /\ m = Len(s) \/ s[m + 1] \in Whitespace
       IN <<SubSeq(s, 1, n)>> \o SplitWs(SubSeq(s, n + 1, Len(s)))

RECURSIVE TrimStart(_)
TrimStart(s) ==
  IF s # <<>> /\ Head(s) \in Whitespace THEN TrimStart(Tail(s)) ELSE s

RECURSIVE TrimEnd(_)
TrimEnd(s) ==
  IF s # <<>> /\ s[Len(s)] \in Whitespace
  THEN TrimEnd(SubSeq(s, 1, Len(s) - 1)) ELSE s

\* s.trim()
Trim(s) == TrimEnd(TrimStart(s))

\* How many times ch is repeated at the start of line.
LeadingRun(line, ch) ==
  CHOOSE n \in 0..Len(line) :
    /\ \A k \in 1..n : line[k] = ch
    /\ n = Len(line) \/ line[n + 1] # ch

\* line.match(/^(?<fence>`{3,}|~{3,})\s*(?<info>.*)$/): the groups fence
\* and info, or no match.
OpenMatch(line) ==
  LET bt == LeadingRun(line, Backtick)
      tl == LeadingRun(line, Tilde)
      n == IF bt >= 3 THEN bt ELSE tl
      rest == TrimStart(SubSeq(line, n + 1, Len(line)))
  IN IF n >= 3 /\ \A k \in DOMAIN rest : rest[k] \notin LineTerminators
     THEN [matched |-> TRUE, fence |-> SubSeq(line, 1, n), info |-> rest]
     ELSE [matched |-> FALSE, fence |-> <<>>, info |-> <<>>]

\* closeLine.match(new RegExp(`^${fence[0]}{${fence.length},}\\s*$`))
CloseMatchAnyFence(fence, line) ==
  \E ch \in {Backtick, Tilde} :
    /\ LeadingRun(line, ch) >= Len(fence)
    /\ \A k \in (LeadingRun(line, ch) + 1)..Len(line) : line[k] \in Whitespace
CloseMatch(fence, line) ==
  LET r == LeadingRun(line, fence[1])
  IN /\ r >= Len(fence)
     /\ \A k \in (r + 1)..Len(line) : line[k] \in Whitespace

\* parseFenceInfo(info)
ParseFenceInfo(info) ==
  LET tokens == SplitWs(info)
  IN IF info = <<>> THEN [lang |-> <<>>, meta |-> <<>>]
     ELSE IF tokens = <<>> THEN [lang |-> <<>>, meta |-> <<>>]
     ELSE [lang |-> Head(tokens), meta |-> JoinWith(Tail(tokens), <<Space>>)]

\* The key whose assignment sets no own property on a plain object.
ProtoKey == <<"_", "_", "p", "r", "o", "t", "o", "_", "_">>

EnvWord == <<"e", "n", "v">>

\* obj[key] = value, obj being a plain object of strings: the assignment of
\* a string to __proto__ is ignored by the inherited setter.
Assign(obj, key, value) ==
  IF key = ProtoKey THEN obj
  ELSE [k \in DOMAIN obj \cup {key} |-> IF k = key THEN value ELSE obj[k]]

\* The body of the for loop of parseMeta for one token.
ParseToken(token, acc) ==
  IF \A k \in DOMAIN token : token[k] # Equals
  THEN [acc EXCEPT !.flags = @ \cup {token}]
  ELSE LET parts == SplitOn(token, Equals)
           rawKey == Head(parts)
           value == JoinWith(Tail(parts), <<Equals>>)
           key == Trim(rawKey)
           envParts == SplitOn(value, Equals)
           envKey == Head(envParts)
           envValue == JoinWith(Tail(envParts), <<Equals>>)
       IN IF key = EnvWord
          THEN IF envKey # <<>>
               THEN [acc EXCEPT !.env = Assign(@, envKey, envValue)]
               ELSE acc
          ELSE IF key # <<>>
               THEN [acc EXCEPT !.attributes = Assign(@, key, value)]
               ELSE acc

RECURSIVE ParseTokens(_, _)
ParseTokens(tokens, acc) ==
  IF tokens = <<>> THEN acc
  ELSE ParseTokens(Tail(tokens), ParseToken(Head(tokens), acc))

\* parseMeta(meta)
ParseMeta(meta) ==
  LET empty == [flags |-> {}, attributes |-> <<>>, env |-> <<>>]
  IN IF meta = <<>> THEN empty ELSE ParseTokens(SplitWs(meta), empty)

\* The lines documents are made of: empty, plain text, fences of both
\* characters and of three lengths, a fence followed by whitespace, by a
\* language, by a language and a flag, a fence after a space, and a fence
\* followed by text that holds a line separator.
DocLines ==
  { <<>>,
    <<"a">>,
    Rep(Backtick, 3),
    Rep(Backtick, 4),
    Rep(Tilde, 3),
    Rep(Backtick, 3) \o <<Space>>,
    Rep(Backtick, 5) \o <<Space, FormFeed>>,
    Rep(Backtick, 3) \o <<"s", "h">>,
    <<Space>> \o Rep(Backtick, 3),
    Rep(Backtick, 3) \o <<"a", LineSeparator, "b">>,
    Rep(Tilde, 3) \o <<Space, "s", Space, Tab, "f">> }

\* The documents: one to MaxLines lines joined by newlines.
Contents ==
  {JoinWith(ls, <<Newline>>) :
     ls \in UNION {[1..n -> DocLines] : n \in 1..MaxLines}}

\* The path parseFile is given.
DocPath == "doc.md"

\* The CodeBlock parseFile pushes for the fence in o.
NewBlock(o) ==
  LET fi == ParseFenceInfo(o.info)
      m == ParseMeta(fi.meta)
  IN [filePath |-> DocPath, lang |-> fi.lang,
      code |-> JoinWith(o.codeLines, <<Newline>>),
      startLine |-> o.startLine, meta |-> fi.meta, flags |-> m.flags,
      attributes |-> m.attributes, env |-> m.env]

\* The line the loops of parseFile look at.
CurrentLine == lines[lineIndex + 1]

ParseUnchanged == UNCHANGED <<engineVars, content, lines, metaIn, metaOut>>

\* Outer loop, no opening fence on the line: index += 1; continue.
ParseSkipLine ==
  /\ ppc = "scan"
  /\ lineIndex < Len(lines)
  /\ ~OpenMatch(CurrentLine).matched
  /\ lineIndex' = lineIndex + 1
  /\ UNCHANGED <<parsed, open, ppc>>
  /\ ParseUnchanged

\* Outer loop, the line opens a fence: fence, info, startLine are set,
\* index += 1, codeLines = [], and the inner loop starts.
ParseOpenFence ==
  /\ ppc = "scan"
  /\ lineIndex < Len(lines)
  /\ OpenMatch(CurrentLine).matched
  /\ open' = [fence |-> OpenMatch(CurrentLine).fence,
              info |-> Trim(OpenMatch(CurrentLine).info),
              startLine |-> lineIndex + 1,
              codeLines |-> <<>>]
  /\ lineIndex' = lineIndex + 1
  /\ ppc' = "inside"
  /\ UNCHANGED parsed
  /\ ParseUnchanged

\* Inner loop, the line does not close the fence: codeLines.push(closeLine).
ParseAbsorbLine ==
  /\ ppc = "inside"
  /\ lineIndex < Len(lines)
  /\ ~CloseMatch(open.fence, CurrentLine)
  /\ open' = [open EXCEPT !.codeLines = Append(@, CurrentLine)]
  /\ lineIndex' = lineIndex + 1
  /\ UNCHANGED <<parsed, ppc>>
  /\ ParseUnchanged

\* Inner loop, the line closes the fence: index += 1; break; the block is
\* pushed.
ParseCloseFence ==
  /\ ppc = "inside"
  /\ lineIndex < Len(lines)
  /\ CloseMatch(open.fence, CurrentLine)
  /\ lineIndex' = lineIndex + 1
  /\ parsed' = Append(parsed, NewBlock(open))
  /\ ppc' = "scan"
  /\ UNCHANGED open
  /\ ParseUnchanged

\* Inner loop left because the lines ran out: the block is pushed.
ParseEndOfDocumentDropsBlock ==
  /\ ppc = "inside"
  /\ lineIndex = Len(lines)
  /\ ppc' = "scan"
  /\ UNCHANGED <<lineIndex, parsed, open>>
  /\ ParseUnchanged
ParseEndOfDocument ==
  /\ ppc = "inside"
  /\ lineIndex = Len(lines)
  /\ parsed' = Append(parsed, NewBlock(open))
  /\ ppc' = "scan"
  /\ UNCHANGED <<lineIndex, open>>
  /\ ParseUnchanged

\* Outer loop left: return blocks.
ParseReturn ==
  /\ ppc = "scan"
  /\ lineIndex = Len(lines)
  /\ ppc' = "returned"
  /\ UNCHANGED <<lineIndex, parsed, open>>
  /\ ParseUnchanged

\* parseFile is called on a document: the state after the split.
InitParse ==
  /\ EngineIdle
  /\ MetaIdle
  /\ content \in Contents
  /\ lines = SplitLines(content)
  /\ lineIndex = 0
  /\ parsed = <<>>
  /\ open = IdleOpen
  /\ ppc = "scan"

NextParse ==
  \/ ParseSkipLine
  \/ ParseOpenFence
  \/ ParseAbsorbLine
  \/ ParseCloseFence
  \/ ParseEndOfDocument
  \/ ParseReturn

SpecParse == InitParse /\ [][NextParse]_vars

\* The tokens meta strings are made of: flags, attributes (one with = in
\* its value, two with the same key), env entries (one with an empty
\* value), and tokens with an empty key, an empty env key or the key
\* __proto__.
MetaTokens ==
  { <<"f">>,
    EnvWord,
    <<"k", Equals, "v">>,
    <<"k", Equals, "w">>,
    <<"a", Equals, "b", Equals, "c">>,
    EnvWord \o <<Equals, "X", Equals, "1">>,
    EnvWord \o <<Equals, "X">>,
    <<Equals, "v">>,
    EnvWord \o <<Equals, Equals, "v">>,
    EnvWord \o <<Equals>>,
    ProtoKey \o <<Equals, "x">> }

\* The meta strings: up to MaxTokens tokens joined by single spaces, as
\* parseFenceInfo makes them.
Metas ==
  {JoinWith(ts, <<Space>>) :
     ts \in UNION {[1..n -> MetaTokens] : n \in 0..MaxTokens}}

\* parseMeta is called and returns.
ParseMetaCall ==
  /\ ~metaOut.done
  /\ metaOut' = [done |-> TRUE, flags |-> ParseMeta(metaIn).flags,
                 attributes |-> ParseMeta(metaIn).attributes,
                 env |-> ParseMeta(metaIn).env]
  /\ UNCHANGED <<engineVars, content, lines, lineIndex, parsed, open, ppc,
                 metaIn>>

InitMeta ==
  /\ EngineIdle
  /\ ParseIdle
  /\ metaIn \in Metas
  /\ metaOut = IdleMetaOut

NextMeta == ParseMetaCall

SpecMeta == InitMeta /\ [][NextMeta]_vars

-----------------------------------------------------------------------------
(* Properties.                                                             *)

EngineKeys == {"DOCTEST_ROOT", "DOCTEST_FILE", "DOCTEST_TMP", "DOCTEST_WORKDIR"}

\* The results pushed for block i so far.
ResultsOf(i) == {k \in DOMAIN results : results[k].block = i}

\* The block results of the returned array, in the order returned.
IsBlockResult(r) == r.block # 0
ReturnedBlockResults == SelectSeq(returned, IsBlockResult)

\* C1: a block that carries the no-doctest flag gets status skipped with
\* reason "no-doctest" once the loop has visited it, and at no time is a
\* process spawned (or a spawn attempted, or a timer armed) for it, whatever
\* its language and whatever the unknown-language policy.
C1_SkipFlagNeverSpawns ==
  \A i \in DOMAIN blocks :
    SkipFlag \in blocks[i].flags =>
      /\ spawn[i] = "none" /\ proc[i] = "none" /\ timer[i] = "none"
      /\ index > i => ResultsOf(i) # {}
      /\ \A k \in ResultsOf(i) :
           /\ results[k].status = "skipped"
           /\ results[k].reason = "no-doctest"

\* A run that returned, under policy "fail", with a flagged block of an
\* unknown language and a flagged block of a registered language.
C1_Witness ==
  /\ pc = "done"
  /\ config.unknownLanguage = "fail"
  /\ \E i, j \in DOMAIN blocks :
       /\ SkipFlag \in blocks[i].flags /\ blocks[i].lang = "zz"
       /\ SkipFlag \in blocks[j].flags /\ blocks[j].lang = "sh"
       /\ \E k \in ResultsOf(i) : results[k].reason = "no-doctest"
       /\ \E k \in ResultsOf(j) : results[k].reason = "no-doctest"

\* C2: a block without the skip flag whose non-empty language has no
\* registered runner gets status failed under policy "fail" and skipped
\* under policy "skip", with reason "unknown language", and no spawn is
\* attempted for it.
C2_UnknownLanguageByPolicy ==
  \A i \in DOMAIN blocks :
    (/\ SkipFlag \notin blocks[i].flags
     /\ blocks[i].lang # ""
     /\ blocks[i].lang \notin RegisteredLangs) =>
      /\ spawn[i] = "none" /\ proc[i] = "none"
      /\ \A k \in ResultsOf(i) :
           /\ results[k].reason = "unknown language"
           /\ results[k].status =
                (IF config.unknownLanguage = "fail" THEN "failed" ELSE "skipped")

\* C3: when the timer of a block fires while its process has not exited,
\* the process is sent the termination signal and the block's result is
\* timeout with exit code null; and the timer stays armed for as long as
\* the process has not exited, so the elapsing timeout does fire it.
C3_TimeoutReported ==
  \A i \in DOMAIN blocks :
    /\ proc[i] = "running" => timer[i] \in {"armed", "fired"}
    /\ firstEvent[i] = "timer" =>
         /\ timer[i] = "fired"
         /\ killed[i]
         /\ (pc = "run" /\ index = i) => run.timedOut
         /\ \A k \in ResultsOf(i) :
              /\ results[k].status = "timeout"
              /\ results[k].exitCode = NoExitCode

\* A block whose timer fired before its process exited has its result.
C3_Witness ==
  \E i \in DOMAIN blocks :
    /\ firstEvent[i] = "timer"
    /\ killed[i]
    /\ proc[i] = "exited"
    /\ \E k \in ResultsOf(i) : results[k].status = "timeout"

\* C4: a configured teardown command is spawned exactly once in a run that
\* returns, and only after the loop has produced a result for every block
\* and no block process is left running; this holds whatever the setup hook
\* and the blocks did, and the returned array then holds the teardown
\* result.  A teardown that is not configured is never spawned.
C4_TeardownOnceAfterLoop ==
  /\ hookSpawns.teardown <= 1
  /\ ~config.hooks.teardown => hookSpawns.teardown = 0
  /\ hookSpawns.teardown = 1 =>
       /\ index > Len(blocks)
       /\ Len(results) = Len(blocks)
       /\ \A i \in DOMAIN blocks : proc[i] # "running"
  /\ (pc = "done" /\ config.hooks.teardown) =>
       /\ hookSpawns.teardown = 1
       /\ Cardinality({k \in DOMAIN returned :
                         returned[k].filePath = "teardown-hook"}) = 1

\* A run that returned after the setup hook failed, one block timed out and
\* one block failed to spawn, with the teardown result in the returned array.
C4_Witness ==
  /\ pc = "done"
  /\ hookSpawns.teardown = 1
  /\ \E k \in DOMAIN returned :
       returned[k].filePath = "setup-hook" /\ returned[k].status = "failed"
  /\ \E k \in DOMAIN returned : returned[k].filePath = "teardown-hook"
  /\ \E k \in DOMAIN results : results[k].status = "timeout"
  /\ \E k \in DOMAIN results : results[k].reason = "spawn failed"

\* C5: the returned array is the hook failures (the setup failure before
\* the teardown failure) followed by the block results in scan order; every
\* entry ahead of the block results is a failed hook result.
C5_HookFailuresFirst ==
  pc = "done" =>
    LET n == Len(returned) - Len(blocks)
    IN /\ n >= 0
       /\ \A k \in 1..n :
            returned[k].block = 0 /\ returned[k].status = "failed"
       /\ \A k, m \in 1..n :
            k < m => /\ returned[k].filePath = "setup-hook"
                     /\ returned[m].filePath = "teardown-hook"
       /\ \A k \in DOMAIN blocks : returned[n + k].block = k

\* C6: results holds one result per visited block, in input order, each
\* referring to its own block; the returned array holds exactly one result
\* per input block in input order, and every block that classifies as
\* runnable had its spawn attempted, whatever happened to earlier blocks
\* and to the setup hook.
C6_OneResultPerBlock ==
  /\ \A k \in DOMAIN results : results[k].block = k
  /\ pc \in {"loop", "run"} => Len(results) = index - 1
  /\ pc = "done" =>
       /\ Len(ReturnedBlockResults) = Len(blocks)
       /\ \A k \in DOMAIN blocks :
            /\ ReturnedBlockResults[k].block = k
            /\ Classify(blocks[k]) = "run" => spawn[k] # "none"

\* A run that returned after the setup hook failed and the first block did
\* not pass, in which the second block was spawned and passed.
C6_Witness ==
  /\ pc = "done"
  /\ Len(blocks) = 2
  /\ \E k \in DOMAIN hookErrors :
       hookErrors[k].filePath = "setup-hook" /\ hookErrors[k].status = "failed"
  /\ results[1].status \in {"failed", "timeout"}
  /\ spawn[2] = "ok"
  /\ results[2].status = "passed"

\* C7: every result runBlock produced (after a spawn error, an exit, or a
\* timeout) comes with fs.unlink called on the block's script file and
\* fs.rm called on its temp directory; a removal that failed leaves the
\* result what the spawn, the timer and the exit code made it, and the run
\* is not rejected by it.
C7_CleanupAlwaysAttempted ==
  /\ \A k \in DOMAIN results :
       LET r == results[k]
           i == r.block
       IN Classify(blocks[i]) = "run" =>
            /\ ScriptFile(i) \in unlinkCalls
            /\ BlockDir(i) \in rmCalls
            /\ spawn[i] = "failed" =>
                 /\ r.status = "failed" /\ r.reason = "spawn failed"
                 /\ r.stderr = SpawnErrorText
            /\ spawn[i] = "ok" =>
                 /\ r.reason = NoReason /\ r.stderr = ErrText
                 /\ r.status = (IF timer[i] = "fired" THEN "timeout"
                                ELSE IF r.exitCode = 0 THEN "passed"
                                ELSE "failed")
  /\ swallowed # {} => pc = "loop"

\* Both removals of a block failed and its result is that of a timeout;
\* an earlier block ended in a spawn error.
C7_Witness ==
  /\ Len(results) = 2
  /\ swallowed = {ScriptFile(2), BlockDir(2)}
  /\ results[2].status = "timeout"
  /\ results[1].reason = "spawn failed"
  /\ ScriptFile(1) \in unlinkCalls /\ BlockDir(1) \in rmCalls

\* C8: the environment handed to a block's process holds, for every key,
\* the value of the strongest source that sets it: engine-injected over
\* block-declared over global configured over inherited.
C8_EnvPrecedence ==
  \A i \in DOMAIN blocks :
    spawn[i] # "none" =>
      LET b == blocks[i]
          e == procEnv[i]
      IN /\ DOMAIN e = DOMAIN ProcessEnv \cup DOMAIN config.env
                         \cup DOMAIN b.env \cup EngineKeys
         /\ e["DOCTEST_ROOT"] = RootDir
         /\ e["DOCTEST_FILE"] = <<b.filePath, 0>>
         /\ e["DOCTEST_TMP"] = BlockTempDir(i)
         /\ e["DOCTEST_WORKDIR"] = Workdir(b)
         /\ \A k \in DOMAIN e \ EngineKeys :
              e[k] = IF k \in DOMAIN b.env THEN b.env[k]
                     ELSE IF k \in DOMAIN config.env THEN config.env[k]
                     ELSE ProcessEnv[k]

\* A running process of a block that declares K and the four engine
\* variables: K is the block's, the engine variables are the engine's.
C8_Witness ==
  \E i \in DOMAIN blocks :
    /\ proc[i] = "running"
    /\ EngineKeys \cup {"K"} \subseteq DOMAIN blocks[i].env
    /\ "K" \in DOMAIN config.env /\ "K" \in DOMAIN ProcessEnv
    /\ procEnv[i]["K"] = <<"block", 0>>
    /\ procEnv[i]["G"] = <<"global", 0>>
    /\ procEnv[i]["HOME"] = <<"inherited", 0>>
    /\ procEnv[i]["DOCTEST_TMP"] = BlockTempDir(i)

\* C9: at most one block process is running at any time, and when the
\* spawn of a block is attempted every earlier block has its result and no
\* earlier block's process is still running.
C9_Sequential ==
  /\ Cardinality({i \in DOMAIN blocks : proc[i] = "running"}) <= 1
  /\ \A i, j \in DOMAIN blocks :
       (i < j /\ spawn[j] # "none") =>
         /\ proc[i] # "running"
         /\ ResultsOf(i) # {}

\* The second block's process runs after the first block's process was
\* killed by its timer and exited.
C9_Witness ==
  /\ Len(blocks) = 2
  /\ firstEvent[1] = "timer" /\ killed[1] /\ proc[1] = "exited"
  /\ proc[2] = "running"

\* C10: when the process of a block exits before its timer fires, the
\* block's result is passed or failed by the exit code it carries, never
\* timeout, however the pipe closures and the timer interleave afterwards.
C10_ExitFirstDecides ==
  \A k \in DOMAIN results :
    firstEvent[results[k].block] = "exit" =>
      /\ results[k].status \in {"passed", "failed"}
      /\ results[k].exitCode # NoExitCode
      /\ results[k].status = "passed" <=> results[k].exitCode = 0

\* C11: a block whose spawn threw has the result failed / "spawn failed"
\* with exit code null, empty stdout and the error's description in
\* stderr; no timer was armed and no process exists for it; unlink and rm
\* were called for it; and the loop went on to the blocks after it.
C11_SpawnFailure ==
  \A i \in DOMAIN blocks :
    spawn[i] = "failed" =>
      /\ timer[i] = "none" /\ ~killed[i] /\ proc[i] = "none"
      /\ ScriptFile(i) \in unlinkCalls /\ BlockDir(i) \in rmCalls
      /\ index > i
      /\ Cardinality(ResultsOf(i)) = 1
      /\ \A k \in ResultsOf(i) :
           /\ results[k].status = "failed"
           /\ results[k].reason = "spawn failed"
           /\ results[k].exitCode = NoExitCode
           /\ results[k].stdout = ""
           /\ results[k].stderr = SpawnErrorText
      /\ pc = "done" => \A j \in DOMAIN blocks : ResultsOf(j) # {}

\* The first block failed to spawn and the second block's process runs.
C11_Witness ==
  /\ Len(blocks) = 2
  /\ spawn[1] = "failed"
  /\ results[1].reason = "spawn failed"
  /\ proc[2] = "running"

\* C15: the program exits 0 exactly when every entry of the returned array,
\* hook entries included, is passed or skipped; a failed or timed-out entry
\* of either kind makes it exit 1.
C15_ExitCode ==
  pc = "done" =>
    /\ ProcessExitCode(returned) \in {0, 1}
    /\ ProcessExitCode(returned) = 0 <=>
         \A k \in DOMAIN returned :
           returned[k].status \in {"passed", "skipped"}

\* Every block passed or was skipped, a hook failed, and the exit code is 1.
C15_Witness ==
  /\ pc = "done"
  /\ Len(blocks) = 2
  /\ results[1].status = "passed" /\ results[2].status = "skipped"
  /\ \E k \in DOMAIN returned :
       returned[k].block = 0 /\ returned[k].status = "failed"
  /\ ProcessExitCode(returned) = 1

\* The entries runHook(type) has contributed to hookErrors.
HookEntries(type) ==
  {k \in DOMAIN hookErrors : hookErrors[k].filePath = HookFilePath(type)}

\* C16: a hook that is not configured is never spawned and has no result; a
\* configured hook is spawned at most once and, once runHook has returned,
\* has exactly one synthetic result: failed with the spawn error in stderr
\* when the spawn threw, failed when it exited non-zero, passed when it
\* exited 0.
C16_HookResults ==
  \A type \in HookTypes :
    /\ hookSpawns[type] <= 1
    /\ ~config.hooks[type] => hookSpawns[type] = 0 /\ HookEntries(type) = {}
    /\ Cardinality(HookEntries(type)) =
         (IF pc = "hook" /\ hook.type = type THEN 0 ELSE hookSpawns[type])
    /\ (pc = "done" /\ config.hooks[type]) =>
         Cardinality(HookEntries(type)) = 1
    /\ \A k \in HookEntries(type) :
         LET r == hookErrors[k]
         IN /\ r.block = 0
            /\ r.status = (IF r.exitCode = 0 THEN "passed" ELSE "failed")
            /\ r.exitCode = NoExitCode =>
                 /\ r.stderr = SpawnErrorText /\ r.stdout = ""
                 /\ r.reason = HookReason(type, "spawn failed")
            /\ r.exitCode # NoExitCode =>
                 /\ r.stderr = ErrText /\ r.stdout = OutText
                 /\ r.reason = HookReason(type, r.status)

\* A run that returned with a setup hook that could not be spawned and a
\* teardown hook that exited 0.
C16_Witness ==
  /\ pc = "done"
  /\ Len(hookErrors) = 2
  /\ hookErrors[1].reason = "setup hook spawn failed"
  /\ hookErrors[2].status = "passed"
  /\ hookErrors[2].filePath = "teardown-hook"

\* C17: no failure makes runBlocks give up: its promise is never rejected,
\* whatever fails while a block's temp directory or script file is made.
C17_NoFatalPath == pc # "rejected"

\* C18: a block without the skip flag and with an empty language tag is
\* skipped with reason "missing language" once visited, under either
\* unknown-language policy, and no spawn is attempted for it.
C18_MissingLanguage ==
  \A i \in DOMAIN blocks :
    (SkipFlag \notin blocks[i].flags /\ blocks[i].lang = "") =>
      /\ spawn[i] = "none" /\ proc[i] = "none" /\ timer[i] = "none"
      /\ index > i => ResultsOf(i) # {}
      /\ \A k \in ResultsOf(i) :
           /\ results[k].status = "skipped"
           /\ results[k].reason = "missing language"

\* Under policy "fail", a block with no language was skipped and a block
\* with an unregistered language failed.
C18_Witness ==
  /\ pc = "done"
  /\ config.unknownLanguage = "fail"
  /\ Len(blocks) = 2
  /\ blocks[1].lang = "zz" /\ results[1].status = "failed"
  /\ blocks[2].lang = "" /\ results[2].reason = "missing language"

\* C19: when runBlock returns after its await, the result is timeout with
\* exit code null if timedOut is set, else failed with the process's exit
\* code if that is non-zero, else passed with exit code 0; and a passed
\* result exists only for a block whose process was spawned, exited with 0
\* and whose timer did not fire.
C19_Classification ==
  /\ [][(pc = "run" /\ pc' = "loop") =>
          LET r == results'[Len(results')]
          IN /\ r.block = index
             /\ run.timedOut =>
                  r.status = "timeout" /\ r.exitCode = NoExitCode
             /\ (~run.timedOut /\ run.exitCode # 0) =>
                  r.status = "failed" /\ r.exitCode = run.exitCode
             /\ (~run.timedOut /\ run.exitCode = 0) =>
                  r.status = "passed" /\ r.exitCode = 0]_vars
  /\ [](\A k \in DOMAIN results :
          results[k].status = "passed" =>
            /\ results[k].block \in DOMAIN blocks
            /\ spawn[results[k].block] = "ok"
            /\ proc[results[k].block] = "exited"
            /\ timer[results[k].block] = "cleared"
            /\ results[k].exitCode = 0)

\* One block failed with its exit code and one block passed.
C19_Witness ==
  /\ Len(results) = 2
  /\ results[1].status = "failed" /\ results[1].exitCode = 1
  /\ results[2].status = "passed" /\ results[2].exitCode = 0

\* C20: a timer is armed only while the runBlock call of its block awaits:
\* never once the block has its result, never during a later block or a
\* hook, so at most one timer is armed; and proc.kill() is called only by
\* the fired timer of the block's own spawned process.
C20_TimerScoped ==
  /\ Cardinality({i \in DOMAIN blocks : timer[i] = "armed"}) <= 1
  /\ \A i \in DOMAIN blocks :
       /\ timer[i] = "armed" => pc = "run" /\ index = i
       /\ ResultsOf(i) # {} => timer[i] # "armed"
       /\ killed[i] => timer[i] = "fired" /\ spawn[i] = "ok"
       /\ timer[i] # "none" => spawn[i] = "ok"
  /\ pc \in {"setup", "hook", "done"} =>
       \A i \in DOMAIN blocks : timer[i] # "armed"

\* The teardown hook's process runs after the timers of two blocks were
\* cancelled.
C20_Witness ==
  /\ Len(blocks) = 2
  /\ timer[1] = "cleared" /\ timer[2] = "cleared"
  /\ pc = "hook" /\ hook.type = "teardown" /\ hook.proc = "running"

\* A line that consists solely of ch repeated at least n times, followed
\* only by optional whitespace.
IsValidCloser(ch, n, line) ==
  \E m \in n..Len(line) :
    /\ \A k \in 1..m : line[k] = ch
    /\ \A k \in (m + 1)..Len(line) : line[k] \in Whitespace

\* C12: while a fence of character c repeated n >= 3 times is open, the
\* next line ends the block exactly when it is c repeated at least n times
\* followed only by whitespace; any other line (the other fence character,
\* fewer repetitions, text after the run) is appended to the block's
\* content, leaves the fence open and starts no block.
C12_CloserRule ==
  /\ [](ppc = "inside" =>
          /\ Len(open.fence) >= 3
          /\ open.fence[1] \in {Backtick, Tilde}
          /\ open.fence = Rep(open.fence[1], Len(open.fence)))
  /\ [][(ppc = "inside" /\ lineIndex < Len(lines)) =>
          IF IsValidCloser(open.fence[1], Len(open.fence), CurrentLine)
          THEN /\ ppc' = "scan"
               /\ Len(parsed') = Len(parsed) + 1
               /\ SubSeq(parsed', 1, Len(parsed)) = parsed
               /\ parsed'[Len(parsed')].startLine = open.startLine
               /\ parsed'[Len(parsed')].code =
                    JoinWith(open.codeLines, <<Newline>>)
          ELSE /\ ppc' = "inside"
               /\ parsed' = parsed
               /\ open' = [open EXCEPT !.codeLines = Append(@, CurrentLine)]
       ]_vars

\* A fence of four backticks took a line of three backticks and a line of
\* three tildes as content and was closed by five backticks followed by
\* whitespace.
C12_Witness ==
  /\ ppc = "returned"
  /\ lines = <<Rep(Backtick, 4), Rep(Backtick, 3), Rep(Tilde, 3),
               Rep(Backtick, 5) \o <<Space, FormFeed>>>>
  /\ Len(parsed) = 1
  /\ parsed[1].code = Rep(Backtick, 3) \o <<Newline>> \o Rep(Tilde, 3)

\* C13: when parseFile has returned and the last fence it opened has no
\* valid closer on any later line, exactly one block starts at or after
\* that fence's line: it starts on that line and its code is every line
\* after it, joined by newlines.
C13_UnterminatedFence ==
  (/\ ppc = "returned"
   /\ open.startLine > 0
   /\ \A j \in (open.startLine + 1)..Len(lines) :
        ~IsValidCloser(open.fence[1], Len(open.fence), lines[j])) =>
    LET late == {k \in DOMAIN parsed : parsed[k].startLine >= open.startLine}
    IN /\ Cardinality(late) = 1
       /\ \A k \in late :
            /\ k = Len(parsed)
            /\ parsed[k].startLine = open.startLine
            /\ parsed[k].code =
                 JoinWith(SubSeq(lines, open.startLine + 1, Len(lines)),
                          <<Newline>>)

\* A fence of four backticks opened on line 2 and never closed gave the
\* only block, holding a line of three backticks and a tilde fence line
\* with a language.
C13_Witness ==
  /\ ppc = "returned"
  /\ Len(lines) = 4
  /\ lines[2] = Rep(Backtick, 4)
  /\ lines[3] = Rep(Backtick, 3)
  /\ lines[4] = Rep(Tilde, 3) \o <<Space, "s", Space, Tab, "f">>
  /\ Len(parsed) = 1
  /\ parsed[1].startLine = 2
  /\ parsed[1].code = lines[3] \o <<Newline>> \o lines[4]

\* s starts with prefix.
StartsWith(s, prefix) ==
  Len(s) >= Len(prefix) /\ SubSeq(s, 1, Len(prefix)) = prefix

\* The token is recorded among the flags / as an attribute / as an env
\* entry of what parseMeta returned.
RecordedAsFlag(token, out) == token \in out.flags
RecordedAsAttribute(token, out) ==
  \E key \in DOMAIN out.attributes : StartsWith(token, key \o <<Equals>>)
RecordedAsEnv(token, out) ==
  \E key \in DOMAIN out.env :
    \/ token = EnvWord \o <<Equals>> \o key
    \/ StartsWith(token, EnvWord \o <<Equals>> \o key \o <<Equals>>)

\* C14: every whitespace-separated token of the meta string is recorded in
\* exactly one of flags, attributes and env of what parseMeta returns.
C14_MetaPartition ==
  metaOut.done =>
    \A j \in DOMAIN SplitWs(metaIn) :
      LET token == SplitWs(metaIn)[j]
      IN Cardinality({c \in {"flag", "attribute", "env"} :
           \/ c = "flag" /\ RecordedAsFlag(token, metaOut)
           \/ c = "attribute" /\ RecordedAsAttribute(token, metaOut)
           \/ c = "env" /\ RecordedAsEnv(token, metaOut)}) = 1

\* C21: with no hook configured, runBlocks eventually returns its array,
\* whatever the block list, when armed timers fire and killed processes
\* exit and close their pipes.
C21_EventuallyReturns ==
  (~config.hooks.setup /\ ~config.hooks.teardown) => <>(pc = "done")

====
